---- MODULE Spec2Model ----
(***************************************************************************)
(* A model of llm-mux's quota-group blocked-state index                    *)
(* (sdk/cliproxy/auth/quota_group.go) and of its sharded token-count cache *)
(* (util token cache, package util).                                       *)
(***************************************************************************)
EXTENDS Integers, Sequences, FiniteSets, TLC

(***************************************************************************)
(* Bounds of the model.                                                    *)
(***************************************************************************)
\* Timestamps are 0..MaxTime; 0 is the zero time.Time{}.
MaxTime == 2

\* Credentials (one *Auth each), quota groups ("" is the empty group name)
\* and the models that can trigger a block.
Creds == {"c1", "c2"}
Groups == {"", "claude", "gemini"}
Models == {"claude-a", "claude-b"}
Times == 0..MaxTime

\* The credentials the sequential specification drives.
SeqCreds == {"c1"}

\* The token cache. The source has numShards = 16 and maxEntriesPerShard = 64
\* (lines 9-10 of the cache file); the model keeps the code parametric in both
\* and checks it for small values.
numShards == 2
maxEntriesPerShard == 2
\* Token counts are 1..MaxTokens.
MaxTokens == 2
\* hashContent returns a uint64; the model keeps the low HashBits bits of FNV-1a.
HashBits == 3
\* Model identifiers passed to extractModelFamily have at most MaxLen bytes.
MaxLen == 3

VARIABLES
    blockedGroups,  \* [cred -> idx.blockedGroups], a map group -> quotaGroupState
    last,           \* the last completed index call, its arguments and result
    phase,          \* [cred -> [group -> history of the group since its last SetBlocked]]
    shards,         \* [cache -> [shard number -> shard.entries]]
    cacheLast,      \* the last completed cache call, its arguments and result
    latest,         \* [cache -> [hash -> tokens of the last completed Set, or 0]]
    tpc,            \* [thread -> where the thread is in Get or Set]
    targ,           \* [thread -> the arguments and locals of its call]
    tret,           \* [thread -> what its Get is about to return]
    rw,             \* [shard number -> shard.mu of the cache the threads share]
    ipc,            \* [thread -> where the thread is in an index method]
    iarg,           \* [thread -> the arguments and locals of its index call]
    crashed,        \* the Go runtime has ended the process (fatal error)
    staleDelete,    \* an isGroupBlocked has deleted an entry it had not read
    setter,         \* [cache -> [hash -> the content of the last completed Set, or none]]
    quotaGroupResolvers, \* the registry: a map provider -> resolver
    quotaGroupProviders, \* the registry's fast-membership set of providers
    quotaGroupMu,   \* the registry's sync.RWMutex
    rstack,         \* [thread -> the stack of registry calls it is inside]
    regLast,        \* the last completed registry call, its arguments and result
    registered,     \* the provider and resolver of the last Register that stored
    Runtime,        \* [cred -> auth.Runtime]: nil, an unrelated value or an index
    Runtime0,       \* Runtime as it was at the start
    gpc,            \* [thread -> where the thread is in getOrCreateQuotaGroupIndex]
    gidx,           \* [thread -> the index the thread's call holds or returned]
    allocated,      \* the number of quotaGroupIndex values created so far
    famLast         \* the last extractModelFamily call, its argument and result

idxVars == <<blockedGroups, last, phase>>
cacheData == <<shards, latest, setter>>
cacheThreadVars == <<tpc, targ, tret, rw>>
cacheVars == <<shards, cacheLast, latest, setter, tpc, targ, tret, rw>>
idxThreadVars == <<ipc, iarg, crashed, staleDelete>>
regVars == <<quotaGroupResolvers, quotaGroupProviders, quotaGroupMu, rstack, regLast,
             registered>>
slotVars == <<Runtime, Runtime0, gpc, gidx, allocated>>
authVars == <<regVars, slotVars, famLast>>
vars == <<blockedGroups, last, phase, shards, cacheLast, latest, tpc, targ, tret, rw,
          ipc, iarg, crashed, staleDelete, setter, quotaGroupResolvers,
          quotaGroupProviders, quotaGroupMu, rstack, regLast, registered, Runtime,
          Runtime0, gpc, gidx,
          allocated, famLast>>

(***************************************************************************)
(* time.Time                                                               *)
(***************************************************************************)
ZeroTime == 0
IsZero(t) == t = ZeroTime
After(t, u) == t > u

(***************************************************************************)
(* quotaGroupState and the map operations of Go                            *)
(***************************************************************************)
quotaGroupState(retry, recover, model) ==
    [NextRetryAfter |-> retry, NextRecoverAt |-> recover, SourceModel |-> model]

NoState == [none |-> TRUE]

EmptyMap == [g \in {} |-> NoState]

MapAssign(m, k, v) == [x \in DOMAIN m \cup {k} |-> IF x = k THEN v ELSE m[x]]

MapDelete(m, k) == [x \in DOMAIN m \ {k} |-> m[x]]

MapLookup(m, k) == IF k \in DOMAIN m THEN m[k] ELSE NoState

(***************************************************************************)
(* isGroupBlocked, lines 173-192                                           *)
(***************************************************************************)
\* a changed effectiveNext: the recover time is never looked at
effectiveNext_retryOnly(state, now) == state.NextRetryAfter

\* lines 183-187: the retry time reported while the group is blocked
effectiveNext(state, now) ==
    IF /\ ~IsZero(state.NextRecoverAt)
       /\ After(state.NextRecoverAt, now)
       /\ After(state.NextRecoverAt, state.NextRetryAfter)
    THEN state.NextRecoverAt
    ELSE state.NextRetryAfter

\* line 182: the test that decides whether the group is still blocked
stillBlocked(state, now) == After(state.NextRetryAfter, now)

\* the pair isGroupBlocked returns on map m
isGroupBlockedResult(m, group, now) ==
    IF group = "" \/ group \notin DOMAIN m
    THEN [blocked |-> FALSE, next |-> ZeroTime]
    ELSE IF stillBlocked(m[group], now)
         THEN [blocked |-> TRUE, next |-> effectiveNext(m[group], now)]
         ELSE [blocked |-> FALSE, next |-> ZeroTime]

\* a changed isGroupBlockedMap: every expired entry is swept, not only the
\* entry of the group asked for
isGroupBlockedMap_sweep(m, group, now) ==
    IF group = "" \/ group \notin DOMAIN m
    THEN m
    ELSE [g \in {x \in DOMAIN m : stillBlocked(m[x], now)} |-> m[g]]

\* a changed isGroupBlockedMap: the expired entry is left in the map
isGroupBlockedMap_noDelete(m, group, now) == m

\* the map isGroupBlocked leaves behind (line 190: lazy deletion)
isGroupBlockedMap(m, group, now) ==
    IF group = "" \/ group \notin DOMAIN m
    THEN m
    ELSE IF stillBlocked(m[group], now) THEN m ELSE MapDelete(m, group)

(***************************************************************************)
(* setGroupBlocked, lines 149-161, and clearGroup, lines 164-169           *)
(***************************************************************************)
\* a changed setGroupBlockedMap: an existing entry keeps its later retry time
setGroupBlockedMap_keepLater(m, group, sourceModel, nextRetry, nextRecover) ==
    IF group = ""
    THEN m
    ELSE IF group \in DOMAIN m /\ After(m[group].NextRetryAfter, nextRetry)
         THEN MapAssign(m, group,
                  quotaGroupState(m[group].NextRetryAfter, nextRecover, sourceModel))
         ELSE MapAssign(m, group, quotaGroupState(nextRetry, nextRecover, sourceModel))

setGroupBlockedMap(m, group, sourceModel, nextRetry, nextRecover) ==
    IF group = ""
    THEN m
    ELSE MapAssign(m, group, quotaGroupState(nextRetry, nextRecover, sourceModel))

\* a changed clearGroupMap: only an entry whose retry time is zero is removed
clearGroupMap_onlyZero(m, group) ==
    IF group \in DOMAIN m /\ IsZero(m[group].NextRetryAfter)
    THEN MapDelete(m, group)
    ELSE m

clearGroupMap(m, group) == MapDelete(m, group)

(***************************************************************************)
(* The index methods, one call at a time. phase keeps the history of each  *)
(* group since its last SetBlocked (section 4.2's state machine): the      *)
(* marks "set", "cleared" and "expired"; SetBlocked resets them to {"set"}.*)
(***************************************************************************)
\* The record of a call: its arguments, what it returned, the entry an
\* isGroupBlocked or clearGroup found (pre), and for a setGroupBlocked whether
\* it overwrote an entry ("none", "later": one with a later retry time, a
\* later recover time and another source model, "other"). The arguments of a
\* setGroupBlocked that returns at line 151 are not recorded.
Call(op, c, group, model, retry, recover, now, res, pre, overwrote) ==
    [op |-> op, cred |-> c, group |-> group, model |-> model,
     retry |-> retry, recover |-> recover, now |-> now,
     blocked |-> res.blocked, next |-> res.next, pre |-> pre,
     overwrote |-> overwrote]

overwritten(old, model, retry, recover) ==
    IF old = NoState THEN "none"
    ELSE IF /\ old.NextRetryAfter > retry
            /\ old.NextRecoverAt > recover
            /\ old.SourceModel # model
         THEN "later"
         ELSE "other"

NoResult == [blocked |-> FALSE, next |-> ZeroTime]

Threads == {"t1", "t2"}
\* The credential whose index the threads share, and the groups and the model
\* they pass.
SharedCred == "c1"
ThreadGroups == {"", "claude"}
ThreadModel == "claude-a"
NoIdxArg == [group |-> "", retry |-> 0, recover |-> 0, now |-> 0, seen |-> NoState]

InitIdx ==
    /\ blockedGroups = [c \in Creds |-> EmptyMap]
    /\ last = Call("none", "c1", "", "claude-a", 0, 0, 0, NoResult, NoState, "none")
    /\ phase = [c \in Creds |-> [g \in Groups |-> {}]]
    /\ ipc = [t \in Threads |-> "idle"]
    /\ iarg = [t \in Threads |-> NoIdxArg]
    /\ crashed = FALSE
    /\ staleDelete = FALSE

SetBlocked(c, group, sourceModel, nextRetry, nextRecover) ==
    /\ blockedGroups' = [blockedGroups EXCEPT ![c] =
           setGroupBlockedMap(@, group, sourceModel, nextRetry, nextRecover)]
    /\ last' = IF group = ""
               THEN Call("setGroupBlocked", c, group, "claude-a", 0, 0, 0,
                         NoResult, NoState, "none")
               ELSE Call("setGroupBlocked", c, group, sourceModel, nextRetry,
                         nextRecover, 0, NoResult, NoState,
                         overwritten(MapLookup(blockedGroups[c], group),
                                     sourceModel, nextRetry, nextRecover))
    /\ phase' = IF group = "" THEN phase
                ELSE [phase EXCEPT ![c][group] = {"set"}]
    /\ UNCHANGED <<cacheVars, authVars, idxThreadVars>>

Clear(c, group) ==
    /\ blockedGroups' = [blockedGroups EXCEPT ![c] = clearGroupMap(@, group)]
    /\ last' = Call("clearGroup", c, group, "claude-a", 0, 0, 0, NoResult,
                    MapLookup(blockedGroups[c], group), "none")
    /\ phase' = IF "set" \in phase[c][group]
                THEN [phase EXCEPT ![c][group] = @ \cup {"cleared"}]
                ELSE phase
    /\ UNCHANGED <<cacheVars, authVars, idxThreadVars>>

IsBlocked(c, group, now) ==
    /\ blockedGroups' = [blockedGroups EXCEPT ![c] =
           isGroupBlockedMap(@, group, now)]
    /\ last' = Call("isGroupBlocked", c, group, "claude-a", 0, 0, now,
                    isGroupBlockedResult(blockedGroups[c], group, now),
                    MapLookup(blockedGroups[c], group), "none")
    /\ phase' = IF group \in DOMAIN blockedGroups[c]
                   /\ group \notin DOMAIN isGroupBlockedMap(blockedGroups[c], group, now)
                THEN [phase EXCEPT ![c][group] = @ \cup {"expired"}]
                ELSE phase
    /\ UNCHANGED <<cacheVars, authVars, idxThreadVars>>

(***************************************************************************)
(* The index methods called from several threads. quotaGroupIndex (lines   *)
(* 101-104) holds the map and no mutex, and the methods take no lock: each *)
(* access to idx.blockedGroups is a step that begins and ends, and Go's    *)
(* runtime may end the process ("fatal error: concurrent map writes",      *)
(* "concurrent map read and map write") when an access begins while        *)
(* another thread's write, or a write begins while another thread's        *)
(* access, is under way; undetected, the accesses take effect in the order *)
(* they end.                                                               *)
(***************************************************************************)
accessing(t) == ipc[t] \in {"assigning", "clear_deleting", "looking", "is_deleting"}

writing(t) == ipc[t] \in {"assigning", "clear_deleting", "is_deleting"}

\* the access thread t is about to begin races with one under way
races(t) ==
    \E u \in Threads \ {t} :
        \/ writing(u)
        \/ accessing(u) /\ ipc[t] \in {"assign", "clear_delete", "is_delete"}

\* lines 149-155: setGroupBlocked up to the map assignment
CallSetBlocked(t, group, nextRetry, nextRecover) ==
    /\ ~crashed
    /\ ipc[t] = "idle"
    /\ IF group = ""
       THEN UNCHANGED <<ipc, iarg>>
       ELSE /\ ipc' = [ipc EXCEPT ![t] = "assign"]
            /\ iarg' = [iarg EXCEPT ![t] = [NoIdxArg EXCEPT !.group = group,
                                                            !.retry = nextRetry,
                                                            !.recover = nextRecover]]
    /\ UNCHANGED <<blockedGroups, crashed, staleDelete, last, phase, cacheVars, authVars>>

\* lines 164-167: clearGroup up to the delete
CallClear(t, group) ==
    /\ ~crashed
    /\ ipc[t] = "idle"
    /\ ipc' = [ipc EXCEPT ![t] = "clear_delete"]
    /\ iarg' = [iarg EXCEPT ![t] = [NoIdxArg EXCEPT !.group = group]]
    /\ UNCHANGED <<blockedGroups, crashed, staleDelete, last, phase, cacheVars, authVars>>

\* lines 173-176: isGroupBlocked up to the map lookup
CallIsBlocked(t, group, now) ==
    /\ ~crashed
    /\ ipc[t] = "idle"
    /\ IF group = ""
       THEN UNCHANGED <<ipc, iarg>>
       ELSE /\ ipc' = [ipc EXCEPT ![t] = "lookup"]
            /\ iarg' = [iarg EXCEPT ![t] = [NoIdxArg EXCEPT !.group = group,
                                                            !.now = now]]
    /\ UNCHANGED <<blockedGroups, crashed, staleDelete, last, phase, cacheVars, authVars>>

\* a map access begins (lines 156, 168, 177, 190)
BeginAccess(t) ==
    /\ ~crashed
    /\ ipc[t] \in {"assign", "clear_delete", "lookup", "is_delete"}
    /\ ipc' = [ipc EXCEPT ![t] =
                  CASE ipc[t] = "assign" -> "assigning"
                    [] ipc[t] = "clear_delete" -> "clear_deleting"
                    [] ipc[t] = "lookup" -> "looking"
                    [] OTHER -> "is_deleting"]
    /\ crashed' \in (IF races(t) THEN {TRUE, FALSE} ELSE {FALSE})
    /\ UNCHANGED <<blockedGroups, iarg, staleDelete, last, phase, cacheVars, authVars>>

\* lines 156-160: the assignment takes effect, setGroupBlocked returns
EndAssign(t) ==
    /\ ~crashed
    /\ ipc[t] = "assigning"
    /\ blockedGroups' = [blockedGroups EXCEPT ![SharedCred] =
           setGroupBlockedMap(@, iarg[t].group, ThreadModel,
                              iarg[t].retry, iarg[t].recover)]
    /\ ipc' = [ipc EXCEPT ![t] = "idle"]
    /\ iarg' = [iarg EXCEPT ![t] = NoIdxArg]
    /\ UNCHANGED <<crashed, staleDelete, last, phase, cacheVars, authVars>>

\* line 168: the delete takes effect, clearGroup returns
EndClear(t) ==
    /\ ~crashed
    /\ ipc[t] = "clear_deleting"
    /\ blockedGroups' = [blockedGroups EXCEPT ![SharedCred] =
           clearGroupMap(@, iarg[t].group)]
    /\ ipc' = [ipc EXCEPT ![t] = "idle"]
    /\ iarg' = [iarg EXCEPT ![t] = NoIdxArg]
    /\ UNCHANGED <<crashed, staleDelete, last, phase, cacheVars, authVars>>

\* lines 177-188: the lookup ends; isGroupBlocked returns unless the entry
\* it read has expired
EndLookup(t) ==
    LET state == MapLookup(blockedGroups[SharedCred], iarg[t].group)
    IN  /\ ~crashed
        /\ ipc[t] = "looking"
        /\ IF state # NoState /\ ~stillBlocked(state, iarg[t].now)
           THEN /\ ipc' = [ipc EXCEPT ![t] = "is_delete"]
                /\ iarg' = [iarg EXCEPT ![t].seen = state]
           ELSE /\ ipc' = [ipc EXCEPT ![t] = "idle"]
                /\ iarg' = [iarg EXCEPT ![t] = NoIdxArg]
        /\ UNCHANGED <<blockedGroups, crashed, staleDelete, last, phase, cacheVars, authVars>>

\* line 190: the lazy delete takes effect, isGroupBlocked returns (false, zero)
EndExpire(t) ==
    /\ ~crashed
    /\ ipc[t] = "is_deleting"
    /\ blockedGroups' = [blockedGroups EXCEPT ![SharedCred] =
           MapDelete(@, iarg[t].group)]
    /\ staleDelete' = (staleDelete \/
           (/\ iarg[t].group \in DOMAIN blockedGroups[SharedCred]
            /\ blockedGroups[SharedCred][iarg[t].group] # iarg[t].seen))
    /\ ipc' = [ipc EXCEPT ![t] = "idle"]
    /\ iarg' = [iarg EXCEPT ![t] = NoIdxArg]
    /\ UNCHANGED <<crashed, last, phase, cacheVars, authVars>>

(***************************************************************************)
(* The token cache: contents, hashContent (lines 43-47)                    *)
(***************************************************************************)
\* Contents are byte strings; these are "a", "c", "ab", "cb", "" and "aa".
Contents == {<<97>>, <<99>>, <<97, 98>>, <<99, 98>>, <<>>, <<97, 97>>}
Tokens == 1..MaxTokens
Caches == {"ToolTokenCache", "InstructionTokenCache", "ContentTokenCache"}
\* The cache the sequential specification drives.
SeqCaches == {"ToolTokenCache"}
ShardIds == 0..(numShards - 1)

HashSpace == 2 ^ HashBits
\* the low 16 bits of FNV-1a's 64-bit offset basis (0x...2325) and prime (0x...01b3)
FnvOffset == 8997 % HashSpace
FnvPrime == 435 % HashSpace

RECURSIVE Xor(_, _)
Xor(a, b) ==
    IF a = 0 THEN b
    ELSE IF b = 0 THEN a
    ELSE (((a % 2) + (b % 2)) % 2) + (2 * Xor(a \div 2, b \div 2))

RECURSIVE fnv1a(_, _)
fnv1a(h, s) ==
    IF s = <<>> THEN h
    ELSE fnv1a((Xor(h, Head(s)) * FnvPrime) % HashSpace, Tail(s))

hashContent(s) == fnv1a(FnvOffset, s)

\* hashContent on the contents of the model, evaluated once
HashOf == [c \in Contents |-> hashContent(c)]

\* a changed shardOf: every hash goes to the first shard
shardOf_first(hash) == 0

\* lines 51 and 66: tc.shards[hash % numShards]
shardOf(hash) == hash % numShards

tokenCacheEntry(hash, tokens) == [hash |-> hash, tokens |-> tokens]

(***************************************************************************)
(* Get (lines 49-62) and Set (lines 64-85) on one shard's entries          *)
(***************************************************************************)
\* the scan of lines 56-60 and 72-77: the first index holding hash, or 0
findEntry(entries, hash) ==
    IF \E i \in 1..Len(entries) : entries[i].hash = hash
    THEN CHOOSE i \in 1..Len(entries) :
            /\ entries[i].hash = hash
            /\ \A j \in 1..(i - 1) : entries[j].hash # hash
    ELSE 0

getResult(entries, hash) ==
    IF findEntry(entries, hash) = 0
    THEN [tokens |-> 0, found |-> FALSE]
    ELSE [tokens |-> entries[findEntry(entries, hash)].tokens, found |-> TRUE]

\* a changed updateEntry: the refresh is appended as a second entry
updateEntry_append(entries, i, tokens) ==
    Append(entries, [hash |-> entries[i].hash, tokens |-> tokens])

\* line 74
updateEntry(entries, i, tokens) == [entries EXCEPT ![i].tokens = tokens]

\* a changed shardFull: > instead of >=
shardFull_offByOne(entries) == Len(entries) > maxEntriesPerShard

\* line 80
shardFull(entries) == Len(entries) >= maxEntriesPerShard

\* a changed evictOldest: the newest entry is dropped
evictOldest_newest(entries) == SubSeq(entries, 1, Len(entries) - 1)

\* line 81: shard.entries[1:]
evictOldest(entries) == Tail(entries)

\* line 84
appendEntry(entries, hash, tokens) == Append(entries, tokenCacheEntry(hash, tokens))

\* a changed setEntries: a present hash is taken out and appended again
setEntries_reinsert(entries, hash, tokens) ==
    IF findEntry(entries, hash) # 0
    THEN Append(SelectSeq(entries, LAMBDA e : e.hash # hash),
                tokenCacheEntry(hash, tokens))
    ELSE appendEntry(IF shardFull(entries) THEN evictOldest(entries) ELSE entries,
                     hash, tokens)

\* lines 72-84: refresh in place, or evict when full and append
setEntries(entries, hash, tokens) ==
    IF findEntry(entries, hash) # 0
    THEN updateEntry(entries, findEntry(entries, hash), tokens)
    ELSE appendEntry(IF shardFull(entries) THEN evictOldest(entries) ELSE entries,
                     hash, tokens)

CacheCall(op, cache, content, tokens, res, pre) ==
    [op |-> op, cache |-> cache, content |-> content, tokens |-> tokens,
     ret |-> res.tokens, found |-> res.found, pre |-> pre]

Miss == [tokens |-> 0, found |-> FALSE]

\* The cache the threads share, and the contents they pass: "a", "c" and "cb"
\* and the empty content.
SharedCache == "ToolTokenCache"
ThreadContents == {<<97>>, <<99>>, <<99, 98>>, <<>>}
\* no content: the value of setter for a hash that was never Set
NoContent == <<-1>>
NoArg == [content |-> <<>>, tokens |-> 0, hash |-> 0, evicted |-> FALSE]

\* NewTokenCache, lines 33-41: every shard starts empty
InitCache ==
    /\ shards = [tc \in Caches |-> [i \in ShardIds |-> <<>>]]
    /\ cacheLast = CacheCall("none", "ToolTokenCache", <<>>, 0, Miss, <<>>)
    /\ latest = [tc \in Caches |-> [h \in 0..(HashSpace - 1) |-> 0]]
    /\ setter = [tc \in Caches |-> [h \in 0..(HashSpace - 1) |-> NoContent]]
    /\ tpc = [t \in Threads |-> "idle"]
    /\ targ = [t \in Threads |-> NoArg]
    /\ tret = [t \in Threads |-> Miss]
    /\ rw = [i \in ShardIds |-> [writer |-> "none", readers |-> {}]]

Get(tc, content) ==
    LET hash == HashOf[content]
        shard == shardOf(hash)
    IN  /\ cacheLast' = CacheCall("Get", tc, content, 0,
                                  getResult(shards[tc][shard], hash),
                                  shards[tc][shard])
        /\ UNCHANGED <<shards, latest, setter>>
        /\ UNCHANGED <<idxVars, idxThreadVars, authVars, cacheThreadVars>>

Set(tc, content, tokens) ==
    LET hash == HashOf[content]
        shard == shardOf(hash)
    IN  /\ shards' = [shards EXCEPT ![tc][shard] = setEntries(@, hash, tokens)]
        /\ cacheLast' = CacheCall("Set", tc, content, tokens, Miss,
                                  shards[tc][shard])
        /\ latest' = [latest EXCEPT ![tc][hash] = tokens]
        /\ setter' = [setter EXCEPT ![tc][hash] = content]
        /\ UNCHANGED <<idxVars, idxThreadVars, authVars, cacheThreadVars>>

(***************************************************************************)
(* Get and Set called from several threads: shard.mu (sync.RWMutex) and    *)
(* the steps each call takes while it holds the lock                       *)
(***************************************************************************)
\* a changed canLock: a writer only waits for another writer
canLock_ignoreReaders(mu) == mu.writer = "none"

\* shard.mu.Lock() can return (line 68)
canLock(mu) == mu.writer = "none" /\ mu.readers = {}

\* a changed canRLock: a reader never waits
canRLock_always(mu) == TRUE

\* shard.mu.RLock() can return (line 53)
canRLock(mu) == mu.writer = "none"

threadShard(t) == shardOf(targ[t].hash)

\* lines 50-51: Get hashes the content before it takes any lock
GetBegin(t, content) ==
    /\ tpc[t] = "idle"
    /\ tpc' = [tpc EXCEPT ![t] = "get_rlock"]
    /\ targ' = [targ EXCEPT ![t] = [NoArg EXCEPT !.content = content,
                                                 !.hash = HashOf[content]]]
    /\ UNCHANGED <<tret, rw, cacheData, cacheLast, idxVars, idxThreadVars, authVars>>

\* line 53
GetRLock(t) ==
    /\ tpc[t] = "get_rlock"
    /\ canRLock(rw[threadShard(t)])
    /\ rw' = [rw EXCEPT ![threadShard(t)].readers = @ \cup {t}]
    /\ tpc' = [tpc EXCEPT ![t] = "get_scan"]
    /\ UNCHANGED <<targ, tret, cacheData, cacheLast, idxVars, idxThreadVars, authVars>>

\* lines 56-61
GetScan(t) ==
    /\ tpc[t] = "get_scan"
    /\ tret' = [tret EXCEPT ![t] =
                   getResult(shards[SharedCache][threadShard(t)], targ[t].hash)]
    /\ tpc' = [tpc EXCEPT ![t] = "get_runlock"]
    /\ UNCHANGED <<targ, rw, cacheData, cacheLast, idxVars, idxThreadVars, authVars>>

\* line 54: the deferred RUnlock, and the return
GetRUnlock(t) ==
    /\ tpc[t] = "get_runlock"
    /\ rw' = [rw EXCEPT ![threadShard(t)].readers = @ \ {t}]
    /\ tpc' = [tpc EXCEPT ![t] = "idle"]
    /\ targ' = [targ EXCEPT ![t] = NoArg]
    /\ tret' = [tret EXCEPT ![t] = Miss]
    /\ UNCHANGED <<cacheData, cacheLast, idxVars, idxThreadVars, authVars>>

\* lines 65-66
SetBegin(t, content, tokens) ==
    /\ tpc[t] = "idle"
    /\ tpc' = [tpc EXCEPT ![t] = "set_lock"]
    /\ targ' = [targ EXCEPT ![t] = [NoArg EXCEPT !.content = content,
                                                 !.tokens = tokens,
                                                 !.hash = HashOf[content]]]
    /\ UNCHANGED <<tret, rw, cacheData, cacheLast, idxVars, idxThreadVars, authVars>>

\* line 68
SetLock(t) ==
    /\ tpc[t] = "set_lock"
    /\ canLock(rw[threadShard(t)])
    /\ rw' = [rw EXCEPT ![threadShard(t)].writer = t]
    /\ tpc' = [tpc EXCEPT ![t] = "set_scan"]
    /\ UNCHANGED <<targ, tret, cacheData, cacheLast, idxVars, idxThreadVars, authVars>>

\* lines 72-77: the scan, and the update in place when the hash is found
SetScan(t) ==
    LET entries == shards[SharedCache][threadShard(t)]
        i == findEntry(entries, targ[t].hash)
    IN  /\ tpc[t] = "set_scan"
        /\ IF i # 0
           THEN /\ shards' = [shards EXCEPT ![SharedCache][threadShard(t)] =
                                 updateEntry(entries, i, targ[t].tokens)]
                /\ tpc' = [tpc EXCEPT ![t] = "set_unlock"]
           ELSE /\ shards' = shards
                /\ tpc' = [tpc EXCEPT ![t] = "set_evict"]
        /\ UNCHANGED <<targ, tret, rw, latest, setter, cacheLast, idxVars, idxThreadVars, authVars>>

\* lines 80-82
SetEvict(t) ==
    LET entries == shards[SharedCache][threadShard(t)]
    IN  /\ tpc[t] = "set_evict"
        /\ IF shardFull(entries)
           THEN /\ shards' = [shards EXCEPT ![SharedCache][threadShard(t)] =
                                 evictOldest(entries)]
                /\ targ' = [targ EXCEPT ![t].evicted = TRUE]
           ELSE UNCHANGED <<shards, targ>>
        /\ tpc' = [tpc EXCEPT ![t] = "set_append"]
        /\ UNCHANGED <<tret, rw, latest, setter, cacheLast, idxVars, idxThreadVars, authVars>>

\* line 84
SetAppend(t) ==
    /\ tpc[t] = "set_append"
    /\ shards' = [shards EXCEPT ![SharedCache][threadShard(t)] =
                     appendEntry(@, targ[t].hash, targ[t].tokens)]
    /\ tpc' = [tpc EXCEPT ![t] = "set_unlock"]
    /\ UNCHANGED <<targ, tret, rw, latest, setter, cacheLast, idxVars, idxThreadVars, authVars>>

\* line 69: the deferred Unlock, and the return: the Set is complete
SetUnlock(t) ==
    /\ tpc[t] = "set_unlock"
    /\ rw' = [rw EXCEPT ![threadShard(t)].writer = "none"]
    /\ latest' = [latest EXCEPT ![SharedCache][targ[t].hash] = targ[t].tokens]
    /\ setter' = [setter EXCEPT ![SharedCache][targ[t].hash] = targ[t].content]
    /\ tpc' = [tpc EXCEPT ![t] = "idle"]
    /\ targ' = [targ EXCEPT ![t] = NoArg]
    /\ UNCHANGED <<tret, shards, cacheLast, idxVars, idxThreadVars, authVars>>

(***************************************************************************)
(* Strings of the registry: provider names and model identifiers are byte  *)
(* sequences; strings.ToLower and strings.TrimSpace on them                *)
(***************************************************************************)
\* unicode.ToLower on one byte of ASCII
toLower(b) == IF b \in 65..90 THEN b + 32 ELSE b

\* strings.ToLower (lines 26, 39, 55, 79)
ToLower(s) == [i \in 1..Len(s) |-> toLower(s[i])]

\* the white space strings.TrimSpace removes: \t \n \v \f \r and the blank
IsSpace(b) == b \in {9, 10, 11, 12, 13, 32}

RECURSIVE TrimLeft(_)
TrimLeft(s) == IF s # <<>> /\ IsSpace(Head(s)) THEN TrimLeft(Tail(s)) ELSE s

RECURSIVE TrimRight(_)
TrimRight(s) ==
    IF s # <<>> /\ IsSpace(s[Len(s)]) THEN TrimRight(SubSeq(s, 1, Len(s) - 1)) ELSE s

\* strings.TrimSpace (line 26)
TrimSpace(s) == TrimRight(TrimLeft(s))

\* The bytes of the group names and model names the index is called with.
utf8 ==
    [s \in {"", "claude", "gemini", "claude-a", "claude-b"} |->
        CASE s = "" -> <<>>
          [] s = "claude" -> <<99, 108, 97, 117, 100, 101>>
          [] s = "gemini" -> <<103, 101, 109, 105, 110, 105>>
          [] s = "claude-a" -> <<99, 108, 97, 117, 100, 101, 45, 97>>
          [] OTHER -> <<99, 108, 97, 117, 100, 101, 45, 98>>]

\* the name whose bytes are b ("" for bytes that are no name of the model)
stringOf(b) ==
    IF \E s \in DOMAIN utf8 : utf8[s] = b
    THEN CHOOSE s \in DOMAIN utf8 : utf8[s] = b
    ELSE ""

(***************************************************************************)
(* extractModelFamily, lines 73-90                                         *)
(***************************************************************************)
\* a changed isDelimiter: the underscore is not a delimiter
isDelimiter_noUnderscore(r) == r \in {45, 46}

\* line 81: r == '-' || r == '_' || r == '.'
isDelimiter(r) == r \in {45, 95, 46}

\* the index of the first delimiter of s (lines 80-81), 0 when it has none
firstDelimiter(s) ==
    IF \E i \in 1..Len(s) : isDelimiter(s[i])
    THEN CHOOSE i \in 1..Len(s) :
            /\ isDelimiter(s[i])
            /\ \A j \in 1..(i - 1) : ~isDelimiter(s[j])
    ELSE 0

\* a changed extractModelFamily: the identifier is not cut at the delimiter
extractModelFamily_noSplit(model) == ToLower(model)

extractModelFamily(model) ==
    IF model = <<>>
    THEN <<>>
    ELSE LET modelLower == ToLower(model)
             i == firstDelimiter(modelLower)
         IN  IF i = 0 THEN modelLower
             ELSE IF i > 1 THEN SubSeq(modelLower, 1, i - 1)
             ELSE <<>>

\* lines 95-97
AntigravityQuotaGroupResolver(provider, model) == extractModelFamily(model)

(***************************************************************************)
(* The resolver registry, lines 14-65                                      *)
(***************************************************************************)
\* The resolvers passed to Register: the built-in family resolver, a resolver
\* that groups nothing (it returns ""), nil, and two resolvers that call back
\* into the registry: one registers the family resolver for Callee before it
\* answers as the family resolver does, one answers what Resolve answers for
\* Callee.
NilResolver == "nil"
PureResolvers == {"AntigravityQuotaGroupResolver", "noGrouping"}
CallingResolvers == {"registering", "delegating"}

\* line 64 for a resolver that calls nothing: resolver(providerLower, model)
invoke(resolver, provider, model) ==
    IF resolver = "AntigravityQuotaGroupResolver"
    THEN AntigravityQuotaGroupResolver(provider, model)
    ELSE <<>>

\* line 26
normalize(provider) == ToLower(TrimSpace(provider))

\* line 27: the call returns without registering
rejected(provider, resolver) == normalize(provider) = <<>> \/ resolver = NilResolver

\* line 31
registerResolver(resolvers, provider, resolver) == MapAssign(resolvers, provider, resolver)

\* line 32
registerProvider(providers, provider) == providers \cup {provider}

\* lines 38-44
HasQuotaGrouping(providers, provider) == ToLower(provider) \in providers

\* lines 55-62: the resolver Resolve finds under the lower-cased provider,
\* NilResolver when it finds none
lookupResolver(resolvers, providerLower) ==
    IF providerLower \in DOMAIN resolvers THEN resolvers[providerLower] ELSE NilResolver

\* lines 49-65, for the resolvers that call nothing
ResolveQuotaGroup(resolvers, provider, model) ==
    IF provider = <<>> \/ model = <<>>
    THEN <<>>
    ELSE LET providerLower == ToLower(provider)
             resolver == lookupResolver(resolvers, providerLower)
         IN  IF resolver = NilResolver
             THEN <<>>
             ELSE invoke(resolver, providerLower, model)

\* the record of a registry call
RegCall(op, provider, resolver, model, ok, group) ==
    [op |-> op, provider |-> provider, resolver |-> resolver, model |-> model,
     ok |-> ok, group |-> group]

\* lines 14-20 and init, lines 195-198: the maps are made empty and the family
\* resolver is registered for "antigravity"
Antigravity == <<97, 110, 116, 105, 103, 114, 97, 118, 105, 116, 121>>
\* a provider that has no resolver at the start
Kiro == <<107, 105, 114, 111>>

InitReg ==
    /\ quotaGroupResolvers =
           registerResolver(EmptyMap, normalize(Antigravity), "AntigravityQuotaGroupResolver")
    /\ quotaGroupProviders = registerProvider({}, normalize(Antigravity))
    /\ quotaGroupMu = [writer |-> "none", readers |-> {}]
    /\ rstack = [t \in Threads |-> <<>>]
    /\ regLast = RegCall("none", <<>>, NilResolver, <<>>, FALSE, <<>>)
    /\ registered = [provider |-> Antigravity, resolver |-> "AntigravityQuotaGroupResolver"]

\* RegisterQuotaGroupResolver, lines 25-34, as one step
Register(provider, resolver) ==
    /\ IF rejected(provider, resolver)
       THEN UNCHANGED <<quotaGroupResolvers, quotaGroupProviders, registered>>
       ELSE /\ quotaGroupResolvers' =
                   registerResolver(quotaGroupResolvers, normalize(provider), resolver)
            /\ quotaGroupProviders' =
                   registerProvider(quotaGroupProviders, normalize(provider))
            /\ registered' = [provider |-> provider, resolver |-> resolver]
    /\ regLast' = RegCall("Register", provider, resolver, <<>>, FALSE, <<>>)
    /\ UNCHANGED <<quotaGroupMu, rstack, slotVars, famLast>>
    /\ UNCHANGED <<idxVars, idxThreadVars, cacheVars>>

\* HasQuotaGrouping, lines 38-44, as one step
HasGrouping(provider) ==
    /\ regLast' = RegCall("HasGrouping", provider, NilResolver, <<>>,
                          HasQuotaGrouping(quotaGroupProviders, provider), <<>>)
    /\ UNCHANGED <<quotaGroupResolvers, quotaGroupProviders, quotaGroupMu, rstack,
                   registered>>
    /\ UNCHANGED <<slotVars, famLast, idxVars, idxThreadVars, cacheVars>>

\* ResolveQuotaGroup, lines 49-65, as one step
Resolve(provider, model) ==
    /\ regLast' = RegCall("Resolve", provider, NilResolver, model, FALSE,
                          ResolveQuotaGroup(quotaGroupResolvers, provider, model))
    /\ UNCHANGED <<quotaGroupResolvers, quotaGroupProviders, quotaGroupMu, rstack,
                   registered>>
    /\ UNCHANGED <<slotVars, famLast, idxVars, idxThreadVars, cacheVars>>

\* extractModelFamily applied to a model identifier
Extract(model) ==
    /\ famLast' = [model |-> model, family |-> extractModelFamily(model)]
    /\ UNCHANGED <<regVars, slotVars, idxVars, idxThreadVars, cacheVars>>

InitFam == famLast = [model |-> <<>>, family |-> <<>>]

(***************************************************************************)
(* auth.Runtime and getOrCreateQuotaGroupIndex, lines 117-137, and         *)
(* getQuotaGroupIndex, lines 140-146. A quotaGroupIndex value is named by  *)
(* a number, the order of its creation; blockedGroups[c] is the map of the *)
(* index auth.Runtime holds.                                                *)
(***************************************************************************)
\* auth.Runtime holds nil (0), a value that is not a *quotaGroupIndex (-1), or
\* an index (its number, 1 or more)
NilRuntime == 0
OtherRuntime == -1
\* the nil *Auth and the nil *quotaGroupIndex
NilAuth == "nil"
NilIndex == 0

isIndex(slot) == slot \notin {NilRuntime, OtherRuntime}

\* the index a nil pointer stands for in the methods below
NilIdx == [nil |-> TRUE]

\* lines 140-146: the map of the credential's index, NilIdx when it has none
getQuotaGroupIndex(c) ==
    IF c = NilAuth \/ ~isIndex(Runtime[c]) THEN NilIdx ELSE blockedGroups[c]

\* a changed setGroupBlocked: no test of idx == nil
setGroupBlocked_noNilTest(idx, group, sourceModel, nextRetry, nextRecover) ==
    setGroupBlockedMap(idx, group, sourceModel, nextRetry, nextRecover)

\* lines 149-161 with the receiver: idx == nil returns at line 151
setGroupBlocked(idx, group, sourceModel, nextRetry, nextRecover) ==
    IF idx = NilIdx
    THEN idx
    ELSE setGroupBlockedMap(idx, group, sourceModel, nextRetry, nextRecover)

\* lines 164-169 with the receiver
clearGroup(idx, group) == IF idx = NilIdx THEN idx ELSE clearGroupMap(idx, group)

\* lines 173-192 with the receiver: the index left and the pair returned
isGroupBlocked(idx, group, now) ==
    IF idx = NilIdx
    THEN [idx |-> idx, blocked |-> FALSE, next |-> ZeroTime]
    ELSE [idx |-> isGroupBlockedMap(idx, group, now),
          blocked |-> isGroupBlockedResult(idx, group, now).blocked,
          next |-> isGroupBlockedResult(idx, group, now).next]

\* The credential the threads race on; it starts with an empty slot.
RacedCred == "c2"
NoIndexResult == [auth |-> NilAuth, idx |-> NilIndex]

\* the credential "c1" has an index (number 1), "c2" has an empty slot
InitSlot ==
    /\ Runtime = [c \in Creds |-> IF c = "c1" THEN 1 ELSE NilRuntime]
    /\ Runtime0 = Runtime
    /\ allocated = 1
    /\ gpc = [t \in Threads |-> "idle"]
    /\ gidx = [t \in Threads |-> NoIndexResult]

\* as InitSlot, but the slot of RacedCred may hold an unrelated value
InitSlotAny ==
    /\ Runtime \in {[c \in Creds |-> IF c = "c1" THEN 1 ELSE v] :
                       v \in {NilRuntime, OtherRuntime}}
    /\ Runtime0 = Runtime
    /\ allocated = 1
    /\ gpc = [t \in Threads |-> "idle"]
    /\ gidx = [t \in Threads |-> NoIndexResult]

\* lines 117-120: the call begins; a nil auth returns nil
GetOrCreateBegin(t, auth) ==
    /\ gpc[t] = "idle"
    /\ gidx' = [gidx EXCEPT ![t] = [auth |-> auth, idx |-> NilIndex]]
    /\ gpc' = [gpc EXCEPT ![t] = IF auth = NilAuth THEN "idle" ELSE "test_nil"]
    /\ UNCHANGED <<Runtime, Runtime0, allocated, blockedGroups>>
    /\ UNCHANGED <<last, phase, regVars, famLast, idxThreadVars, cacheVars>>

\* line 121: auth.Runtime is read and compared with nil
GetOrCreateTestNil(t) ==
    /\ gpc[t] = "test_nil"
    /\ gpc' = [gpc EXCEPT ![t] =
                  IF Runtime[gidx[t].auth] = NilRuntime THEN "create" ELSE "assert"]
    /\ UNCHANGED <<Runtime, Runtime0, allocated, gidx, blockedGroups>>
    /\ UNCHANGED <<last, phase, regVars, famLast, idxThreadVars, cacheVars>>

\* line 128: auth.Runtime is read again for the type assertion; an index is
\* returned as it is
GetOrCreateAssert(t) ==
    /\ gpc[t] = "assert"
    /\ IF isIndex(Runtime[gidx[t].auth])
       THEN /\ gidx' = [gidx EXCEPT ![t].idx = Runtime[gidx[t].auth]]
            /\ gpc' = [gpc EXCEPT ![t] = "idle"]
       ELSE /\ gidx' = gidx
            /\ gpc' = [gpc EXCEPT ![t] = "create"]
    /\ UNCHANGED <<Runtime, Runtime0, allocated, blockedGroups>>
    /\ UNCHANGED <<last, phase, regVars, famLast, idxThreadVars, cacheVars>>

\* lines 122-126 and 132-136: a new index with an empty map is created, stored
\* in auth.Runtime and returned
GetOrCreateStore(t) ==
    /\ gpc[t] = "create"
    /\ allocated' = allocated + 1
    /\ Runtime' = [Runtime EXCEPT ![gidx[t].auth] = allocated + 1]
    /\ blockedGroups' = [blockedGroups EXCEPT ![gidx[t].auth] = EmptyMap]
    /\ gidx' = [gidx EXCEPT ![t].idx = allocated + 1]
    /\ gpc' = [gpc EXCEPT ![t] = "idle"]
    /\ UNCHANGED <<Runtime0, last, phase, regVars, famLast, idxThreadVars, cacheVars>>

(***************************************************************************)
(* The registry called from several threads: quotaGroupMu (sync.RWMutex)   *)
(* and the steps of each call. A thread's calls form a stack: a resolver   *)
(* invoked at line 64 may itself call Register or Resolve.                 *)
(***************************************************************************)
\* a changed rUnlock: the read lock is kept
rUnlock_keep(mu, t) == mu

\* quotaGroupMu.RUnlock(), lines 42 and 58
rUnlock(mu, t) == [mu EXCEPT !.readers = @ \ {t}]

\* the frame of a call: its arguments, its place, and its locals (the
\* resolver found, the ok of line 41, the value to return)
Frame(op, pc, provider, resolver, model) ==
    [op |-> op, pc |-> pc, provider |-> provider, resolver |-> resolver,
     model |-> model, ok |-> FALSE, ret |-> <<>>]

idle(t) == rstack[t] = <<>> /\ tpc[t] = "idle"

top(t) == rstack[t][Len(rstack[t])]

at(t, op, pc) == rstack[t] # <<>> /\ top(t).op = op /\ top(t).pc = pc

setTop(t, f) == [rstack EXCEPT ![t] = [@ EXCEPT ![Len(@)] = f]]

push(t, f) == [rstack EXCEPT ![t] = Append(@, f)]

\* The provider the calling resolvers call back for: "registering" registers
\* the family resolver for "kiro", "delegating" resolves under "antigravity".
RegisteringCallee == Kiro
DelegatingCallee == Antigravity

\* lines 25-29: Register normalizes the provider and returns at once when
\* there is nothing to register
enterRegister(t, provider, resolver) ==
    IF rejected(provider, resolver)
    THEN rstack
    ELSE push(t, Frame("Register", "lock", normalize(provider), resolver, <<>>))

\* lines 50-55: Resolve returns "" at once for an empty argument
enterResolve(t, provider, model) ==
    IF provider = <<>> \/ model = <<>>
    THEN rstack
    ELSE push(t, Frame("Resolve", "rlock", ToLower(provider), NilResolver, model))

RegisterCall(t, provider, resolver) ==
    /\ idle(t)
    /\ rstack' = enterRegister(t, provider, resolver)
    /\ UNCHANGED <<quotaGroupResolvers, quotaGroupProviders, quotaGroupMu, regLast,
                   registered>>
    /\ UNCHANGED <<slotVars, famLast, idxVars, idxThreadVars, cacheVars>>

\* line 30
RegisterLock(t) ==
    /\ at(t, "Register", "lock")
    /\ canLock(quotaGroupMu)
    /\ quotaGroupMu' = [quotaGroupMu EXCEPT !.writer = t]
    /\ rstack' = setTop(t, [top(t) EXCEPT !.pc = "store_resolver"])
    /\ UNCHANGED <<quotaGroupResolvers, quotaGroupProviders, regLast, registered>>
    /\ UNCHANGED <<slotVars, famLast, idxVars, idxThreadVars, cacheVars>>

\* line 31
RegisterStoreResolver(t) ==
    /\ at(t, "Register", "store_resolver")
    /\ quotaGroupResolvers' =
           registerResolver(quotaGroupResolvers, top(t).provider, top(t).resolver)
    /\ rstack' = setTop(t, [top(t) EXCEPT !.pc = "store_provider"])
    /\ UNCHANGED <<quotaGroupProviders, quotaGroupMu, regLast, registered>>
    /\ UNCHANGED <<slotVars, famLast, idxVars, idxThreadVars, cacheVars>>

\* line 32
RegisterStoreProvider(t) ==
    /\ at(t, "Register", "store_provider")
    /\ quotaGroupProviders' = registerProvider(quotaGroupProviders, top(t).provider)
    /\ rstack' = setTop(t, [top(t) EXCEPT !.pc = "unlock"])
    /\ UNCHANGED <<quotaGroupResolvers, quotaGroupMu, regLast, registered>>
    /\ UNCHANGED <<slotVars, famLast, idxVars, idxThreadVars, cacheVars>>

\* line 33
RegisterUnlock(t) ==
    /\ at(t, "Register", "unlock")
    /\ quotaGroupMu' = [quotaGroupMu EXCEPT !.writer = "none"]
    /\ rstack' = setTop(t, [top(t) EXCEPT !.pc = "return"])
    /\ UNCHANGED <<quotaGroupResolvers, quotaGroupProviders, regLast, registered>>
    /\ UNCHANGED <<slotVars, famLast, idxVars, idxThreadVars, cacheVars>>

\* lines 38-39
HasGroupingCall(t, provider) ==
    /\ idle(t)
    /\ rstack' = push(t, Frame("HasGrouping", "rlock", ToLower(provider), NilResolver, <<>>))
    /\ UNCHANGED <<quotaGroupResolvers, quotaGroupProviders, quotaGroupMu, regLast,
                   registered>>
    /\ UNCHANGED <<slotVars, famLast, idxVars, idxThreadVars, cacheVars>>

\* lines 49-55
ResolveCall(t, provider, model) ==
    /\ idle(t)
    /\ rstack' = enterResolve(t, provider, model)
    /\ UNCHANGED <<quotaGroupResolvers, quotaGroupProviders, quotaGroupMu, regLast,
                   registered>>
    /\ UNCHANGED <<slotVars, famLast, idxVars, idxThreadVars, cacheVars>>

\* lines 40 and 56
RegistryRLock(t) ==
    /\ at(t, "HasGrouping", "rlock") \/ at(t, "Resolve", "rlock")
    /\ canRLock(quotaGroupMu)
    /\ quotaGroupMu' = [quotaGroupMu EXCEPT !.readers = @ \cup {t}]
    /\ rstack' = setTop(t, [top(t) EXCEPT !.pc = "read"])
    /\ UNCHANGED <<quotaGroupResolvers, quotaGroupProviders, regLast, registered>>
    /\ UNCHANGED <<slotVars, famLast, idxVars, idxThreadVars, cacheVars>>

\* line 41
HasGroupingRead(t) ==
    /\ at(t, "HasGrouping", "read")
    /\ rstack' = setTop(t, [top(t) EXCEPT !.pc = "runlock",
                                          !.ok = top(t).provider \in quotaGroupProviders])
    /\ UNCHANGED <<quotaGroupResolvers, quotaGroupProviders, quotaGroupMu, regLast,
                   registered>>
    /\ UNCHANGED <<slotVars, famLast, idxVars, idxThreadVars, cacheVars>>

\* line 57
ResolveRead(t) ==
    /\ at(t, "Resolve", "read")
    /\ rstack' = setTop(t, [top(t) EXCEPT
                               !.pc = "runlock",
                               !.resolver = lookupResolver(quotaGroupResolvers,
                                                           top(t).provider)])
    /\ UNCHANGED <<quotaGroupResolvers, quotaGroupProviders, quotaGroupMu, regLast,
                   registered>>
    /\ UNCHANGED <<slotVars, famLast, idxVars, idxThreadVars, cacheVars>>

\* lines 42 and 58-62: the read lock is released; Resolve goes on to invoke
\* the resolver it found
RegistryRUnlock(t) ==
    /\ at(t, "HasGrouping", "runlock") \/ at(t, "Resolve", "runlock")
    /\ quotaGroupMu' = rUnlock(quotaGroupMu, t)
    /\ rstack' = setTop(t, [top(t) EXCEPT !.pc =
                               IF top(t).op = "Resolve" /\ top(t).resolver # NilResolver
                               THEN "invoke" ELSE "return"])
    /\ UNCHANGED <<quotaGroupResolvers, quotaGroupProviders, regLast, registered>>
    /\ UNCHANGED <<slotVars, famLast, idxVars, idxThreadVars, cacheVars>>

\* line 64: the resolver is invoked; a resolver that calls back enters
\* Register or Resolve
ResolveInvoke(t) ==
    LET f == top(t)
        called == [rstack EXCEPT ![t] = [@ EXCEPT ![Len(@)] = [f EXCEPT !.pc = "called"]]]
    IN  /\ at(t, "Resolve", "invoke")
        /\ rstack' =
              IF f.resolver = "registering"
              THEN [called EXCEPT ![t] =
                       Append(@, Frame("Register", "lock", normalize(RegisteringCallee),
                                       "AntigravityQuotaGroupResolver", <<>>))]
              ELSE IF f.resolver = "delegating"
              THEN [called EXCEPT ![t] =
                       Append(@, Frame("Resolve", "rlock", ToLower(DelegatingCallee),
                                       NilResolver, f.model))]
              ELSE setTop(t, [f EXCEPT !.pc = "return",
                                       !.ret = invoke(f.resolver, f.provider, f.model)])
        /\ UNCHANGED <<quotaGroupResolvers, quotaGroupProviders, quotaGroupMu, regLast,
                       registered>>
        /\ UNCHANGED <<slotVars, famLast, idxVars, idxThreadVars, cacheVars>>

\* the call returns: to the resolver that made it, which then returns its own
\* result to Resolve (line 64), or to the thread
Return(t) ==
    LET f == top(t)
        rest == SubSeq(rstack[t], 1, Len(rstack[t]) - 1)
        caller == rest[Len(rest)]
    IN  /\ rstack[t] # <<>>
        /\ f.pc = "return"
        /\ rstack' = [rstack EXCEPT ![t] =
              IF rest = <<>>
              THEN rest
              ELSE [rest EXCEPT ![Len(rest)] =
                       [caller EXCEPT
                           !.pc = "return",
                           !.ret = IF caller.resolver = "registering"
                                   THEN AntigravityQuotaGroupResolver(caller.provider,
                                                                      caller.model)
                                   ELSE f.ret]]]
        /\ UNCHANGED <<quotaGroupResolvers, quotaGroupProviders, quotaGroupMu, regLast,
                       registered>>
        /\ UNCHANGED <<slotVars, famLast, idxVars, idxThreadVars, cacheVars>>

(***************************************************************************)
(* The routing check of the credential pool: Resolve, then IsBlocked on    *)
(* the credential's index; and the index methods called for a credential   *)
(* that has no index                                                       *)
(***************************************************************************)
\* ResolveQuotaGroup(provider, model), then getQuotaGroupIndex(c) and
\* isGroupBlocked(group, now) on what it returns
RouteCheck(c, provider, model, now) ==
    LET resolved == ResolveQuotaGroup(quotaGroupResolvers, provider, utf8[model])
        group == stringOf(resolved)
        idx == getQuotaGroupIndex(c)
        res == isGroupBlocked(idx, group, now)
    IN  /\ regLast' = RegCall("Resolve", provider, NilResolver, utf8[model], FALSE, resolved)
        /\ blockedGroups' = IF idx = NilIdx THEN blockedGroups
                            ELSE [blockedGroups EXCEPT ![c] = res.idx]
        /\ last' = Call("isGroupBlocked", c, group, model, 0, 0, now, res,
                        IF idx = NilIdx THEN NoState ELSE MapLookup(idx, group),
                        "none")
        /\ phase' = IF idx # NilIdx /\ group \in DOMAIN idx /\ group \notin DOMAIN res.idx
                    THEN [phase EXCEPT ![c][group] = @ \cup {"expired"}]
                    ELSE phase
        /\ UNCHANGED <<quotaGroupResolvers, quotaGroupProviders, quotaGroupMu, rstack,
                   registered>>
        /\ UNCHANGED <<slotVars, famLast, idxThreadVars, cacheVars>>

\* getQuotaGroupIndex(c) returns nil and setGroupBlocked is called on it
NilSetBlocked(c, group, sourceModel, nextRetry, nextRecover) ==
    LET idx == getQuotaGroupIndex(c)
        post == setGroupBlocked(idx, group, sourceModel, nextRetry, nextRecover)
    IN  /\ idx = NilIdx
        /\ blockedGroups' = IF post = NilIdx THEN blockedGroups
                            ELSE [blockedGroups EXCEPT ![c] = post]
        /\ last' = Call("setGroupBlocked", c, group, sourceModel, nextRetry,
                        nextRecover, 0, NoResult, NoState, "none")
        /\ UNCHANGED <<phase, authVars, idxThreadVars, cacheVars>>

\* getQuotaGroupIndex(c) returns nil and clearGroup is called on it
NilClear(c, group) ==
    LET idx == getQuotaGroupIndex(c)
        post == clearGroup(idx, group)
    IN  /\ idx = NilIdx
        /\ blockedGroups' = IF post = NilIdx THEN blockedGroups
                            ELSE [blockedGroups EXCEPT ![c] = post]
        /\ last' = Call("clearGroup", c, group, "claude-a", 0, 0, 0, NoResult,
                        NoState, "none")
        /\ UNCHANGED <<phase, authVars, idxThreadVars, cacheVars>>

Init == InitIdx /\ InitCache /\ InitReg /\ InitSlot /\ InitFam

Next ==
    \E c \in SeqCreds, group \in Groups :
        \/ \E m \in Models, r \in Times, rc \in Times : SetBlocked(c, group, m, r, rc)
        \/ Clear(c, group)
        \/ \E now \in Times : IsBlocked(c, group, now)

Spec == Init /\ [][Next]_vars

\* The index of one credential shared by the threads.
NextIdxThreads ==
    \E t \in Threads :
        \/ \E group \in ThreadGroups, r \in Times, rc \in Times :
              CallSetBlocked(t, group, r, rc)
        \/ \E group \in ThreadGroups : CallClear(t, group)
        \/ \E group \in ThreadGroups, now \in Times : CallIsBlocked(t, group, now)
        \/ BeginAccess(t)
        \/ EndAssign(t)
        \/ EndClear(t)
        \/ EndLookup(t)
        \/ EndExpire(t)

SpecIdxThreads == Init /\ [][NextIdxThreads]_vars

\* The token cache, one call at a time.
NextCache ==
    \E tc \in SeqCaches, content \in Contents :
        \/ Get(tc, content)
        \/ \E tokens \in Tokens : Set(tc, content, tokens)

SpecCache == Init /\ [][NextCache]_vars

\* The token cache shared by the threads.
NextCacheThreads ==
    \E t \in Threads :
        \/ \E content \in ThreadContents : GetBegin(t, content)
        \/ GetRLock(t)
        \/ GetScan(t)
        \/ GetRUnlock(t)
        \/ \E content \in ThreadContents, tokens \in Tokens : SetBegin(t, content, tokens)
        \/ SetLock(t)
        \/ SetScan(t)
        \/ SetEvict(t)
        \/ SetAppend(t)
        \/ SetUnlock(t)

SpecCacheThreads == Init /\ [][NextCacheThreads]_vars

\* The routing check, one call at a time: the providers "Antigravity", "kiro"
\* and "", the models "claude-a", "claude-b" and "", the credential "c1" with
\* an index and "c2" without; "kiro", "" and " " are registered.
RoutedProviders == {<<65, 110, 116, 105, 103, 114, 97, 118, 105, 116, 121>>, Kiro, <<>>}
RouteRegistered == {Kiro, <<>>, <<32>>}
RouteResolvers == {"AntigravityQuotaGroupResolver", NilResolver}
RouteModels == {"claude-a", "claude-b", ""}
RouteGroups == {"", "claude"}
IndexedCred == "c1"
UnindexedCred == "c2"

NextRouting ==
    \/ \E p \in RouteRegistered, r \in RouteResolvers : Register(p, r)
    \/ \E g \in RouteGroups, m \in Models, r \in Times :
          SetBlocked(IndexedCred, g, m, r, ZeroTime)
    \/ \E c \in Creds, p \in RoutedProviders, m \in RouteModels, now \in Times :
          RouteCheck(c, p, m, now)
    \/ \E g \in RouteGroups, r \in Times :
          NilSetBlocked(UnindexedCred, g, "claude-a", r, ZeroTime)
    \/ \E g \in RouteGroups : NilClear(UnindexedCred, g)

SpecRouting == Init /\ [][NextRouting]_vars

\* The registry, one call at a time: the providers "antigravity",
\* "Antigravity", " antigravity ", "kiro", "" and " ", the resolvers that call
\* nothing and nil, the models "claude-a", "Claude_B" and "".
RegProviders ==
    {Antigravity, <<65, 110, 116, 105, 103, 114, 97, 118, 105, 116, 121>>,
     <<32, 97, 110, 116, 105, 103, 114, 97, 118, 105, 116, 121, 32>>, Kiro, <<>>, <<32>>}
RegResolvers == PureResolvers \cup {NilResolver}
RegModels == {<<99, 108, 97, 117, 100, 101, 45, 97>>, <<67, 108, 97, 117, 100, 101, 95, 66>>, <<>>}

NextRegistry ==
    \/ \E p \in RegProviders, r \in RegResolvers : Register(p, r)
    \/ \E p \in RegProviders : HasGrouping(p)
    \/ \E p \in RegProviders, m \in RegModels : Resolve(p, m)

SpecRegistry == Init /\ [][NextRegistry]_vars

\* The registry shared by the threads: "Antigravity" and "qwen" are
\* registered, "antigravity", "qwen" and "kiro" are looked up.
Qwen == <<113, 119, 101, 110>>
ThreadRegistered == {<<65, 110, 116, 105, 103, 114, 97, 118, 105, 116, 121>>, Qwen}
ThreadLookedUp == {Antigravity, Qwen, Kiro}
ThreadModels == {<<99, 108, 97, 117, 100, 101, 45, 97>>, <<>>}

RegistrySteps(t) ==
    \/ RegisterLock(t)
    \/ RegisterStoreResolver(t)
    \/ RegisterStoreProvider(t)
    \/ RegisterUnlock(t)
    \/ RegistryRLock(t)
    \/ HasGroupingRead(t)
    \/ ResolveRead(t)
    \/ RegistryRUnlock(t)
    \/ ResolveInvoke(t)
    \/ Return(t)

NextRegistryThreads ==
    \E t \in Threads :
        \/ \E p \in ThreadRegistered, r \in RegResolvers : RegisterCall(t, p, r)
        \/ \E p \in ThreadLookedUp : HasGroupingCall(t, p)
        \/ \E p \in ThreadLookedUp, m \in ThreadModels : ResolveCall(t, p, m)
        \/ RegistrySteps(t)

SpecRegistryThreads == Init /\ [][NextRegistryThreads]_vars

\* The registry and one token cache shared by the threads, with resolvers
\* that call back into the registry. "registering" is registered for
\* "antigravity" and "delegating" for "kiro" only, so that no resolver calls
\* itself without end.
LockRegistrations ==
    {<<Antigravity, "AntigravityQuotaGroupResolver">>, <<Antigravity, "registering">>,
     <<Kiro, "delegating">>}
LockLookedUp == {Kiro}
LockModel == <<99, 108, 97, 117, 100, 101, 45, 97>>
\* the contents "a" and "" and the token count the threads pass
LockContents == {<<97>>, <<>>}
LockTokens == {MaxTokens}

CacheGetBegin(t, content) == rstack[t] = <<>> /\ GetBegin(t, content)

CacheSetBegin(t, content, tokens) == rstack[t] = <<>> /\ SetBegin(t, content, tokens)

CacheSteps(t) ==
    \/ GetRLock(t)
    \/ GetScan(t)
    \/ GetRUnlock(t)
    \/ SetLock(t)
    \/ SetScan(t)
    \/ SetEvict(t)
    \/ SetAppend(t)
    \/ SetUnlock(t)

NextLocks ==
    \E t \in Threads :
        \/ \E pr \in LockRegistrations : RegisterCall(t, pr[1], pr[2])
        \/ \E p \in LockLookedUp : HasGroupingCall(t, p)
        \/ \E p \in LockLookedUp : ResolveCall(t, p, LockModel)
        \/ RegistrySteps(t)
        \/ \E content \in LockContents : CacheGetBegin(t, content)
        \/ \E content \in LockContents, tokens \in LockTokens :
              CacheSetBegin(t, content, tokens)
        \/ CacheSteps(t)

\* the steps of a thread that take a lock
Acquire(t) == RegisterLock(t) \/ RegistryRLock(t) \/ GetRLock(t) \/ SetLock(t)

\* Every thread inside a call goes on (the Go scheduler is fair), and a
\* thread that waits for a lock gets it if the lock is free again and again
\* (sync.RWMutex lets no reader and no writer starve).
SpecLocks ==
    /\ Init
    /\ [][NextLocks]_vars
    /\ \A t \in Threads :
          /\ WF_vars(RegistrySteps(t) \/ CacheSteps(t))
          /\ SF_vars(Acquire(t))

\* The model identifiers extractModelFamily is applied to: the byte strings
\* of at most MaxLen bytes over a, A, 1 and the delimiters - _ .
FamAlphabet == {97, 65, 49, 45, 95, 46}
ModelIds == UNION {[1..n -> FamAlphabet] : n \in 0..MaxLen}

NextFamily == \E model \in ModelIds : Extract(model)

SpecFamily == Init /\ [][NextFamily]_vars

\* getOrCreateQuotaGroupIndex called by the threads for the credentials and
\* for a nil credential; the slot of RacedCred starts empty or holds an
\* unrelated value.
InitGetOrCreate == InitIdx /\ InitCache /\ InitReg /\ InitSlotAny /\ InitFam

GetOrCreateAuths == Creds \cup {NilAuth}

NextGetOrCreate ==
    \E t \in Threads :
        \/ \E auth \in GetOrCreateAuths : GetOrCreateBegin(t, auth)
        \/ GetOrCreateTestNil(t)
        \/ GetOrCreateAssert(t)
        \/ GetOrCreateStore(t)

SpecGetOrCreate == InitGetOrCreate /\ [][NextGetOrCreate]_vars

\* The indexes of two credentials, one call at a time: both credentials hold
\* an index, and the calls name two groups of one and one group of the
\* other, with the retry times of Times and no recover time.
InitSlotBoth ==
    /\ Runtime = [c \in Creds |-> IF c = "c1" THEN 1 ELSE 2]
    /\ Runtime0 = Runtime
    /\ allocated = 2
    /\ gpc = [t \in Threads |-> "idle"]
    /\ gidx = [t \in Threads |-> NoIndexResult]

InitIndexes == InitIdx /\ InitCache /\ InitReg /\ InitSlotBoth /\ InitFam

IndexesModel == "claude-a"
\* the credential and the group of the calls
IndexesCalls == {<<"c1", "claude">>, <<"c1", "gemini">>, <<"c2", "claude">>}

NextIndexes ==
    \E call \in IndexesCalls :
        \/ \E r \in Times : SetBlocked(call[1], call[2], IndexesModel, r, ZeroTime)
        \/ Clear(call[1], call[2])
        \/ \E now \in Times : IsBlocked(call[1], call[2], now)

SpecIndexes == InitIndexes /\ [][NextIndexes]_vars

\* Two caches built by NewTokenCache, one call at a time, with the contents
\* "a", "" and "aa".
TwoCaches == {"ToolTokenCache", "InstructionTokenCache"}
TwoCachesContents == {<<97>>, <<>>, <<97, 97>>}

NextCaches ==
    \E tc \in TwoCaches, content \in TwoCachesContents :
        \/ Get(tc, content)
        \/ \E tokens \in Tokens : Set(tc, content, tokens)

SpecCaches == Init /\ [][NextCaches]_vars

(***************************************************************************)
(* Properties of the quota-group index                                     *)
(***************************************************************************)
lastEntry == MapLookup(blockedGroups[last.cred], last.group)

Max(a, b) == IF a >= b THEN a ELSE b

\* C1: recover-at dominance. After SetBlocked(g, m, retry, recover) with
\* retry < recover, an IsBlocked(g, now) with retry <= now < recover returns
\* (true, recover) and leaves the group's entry in the index (stated for a
\* retry time that is a real timestamp, not the zero time).
C1_RecoverAtDominance ==
    ( /\ last.op = "isGroupBlocked"
      /\ last.pre # NoState
      /\ ~IsZero(last.pre.NextRetryAfter)
      /\ last.pre.NextRetryAfter < last.pre.NextRecoverAt
      /\ last.pre.NextRetryAfter <= last.now
      /\ last.now < last.pre.NextRecoverAt )
    => ( /\ last.blocked
         /\ last.next = last.pre.NextRecoverAt
         /\ lastEntry = last.pre )

\* C7: while the retry window is open (retry > now), IsBlocked(g, now) returns
\* (true, e) with e = max(retry, recover) if recover > now and e = retry
\* otherwise, and leaves the stored state unchanged.
C7_OpenWindowResult ==
    ( /\ last.op = "isGroupBlocked"
      /\ last.pre # NoState
      /\ last.pre.NextRetryAfter > last.now )
    => ( /\ last.blocked
         /\ last.next = IF last.pre.NextRecoverAt > last.now
                        THEN Max(last.pre.NextRetryAfter, last.pre.NextRecoverAt)
                        ELSE last.pre.NextRetryAfter
         /\ lastEntry = last.pre
         /\ "expired" \notin phase[last.cred][last.group] )

\* a state where IsBlocked answered with the recover time of an open window
C7_Witness ==
    /\ last.op = "isGroupBlocked"
    /\ last.pre # NoState
    /\ last.pre.NextRetryAfter > last.now
    /\ last.pre.NextRecoverAt > last.pre.NextRetryAfter
    /\ last.blocked
    /\ last.next = last.pre.NextRecoverAt

\* the entry of every group other than the one a call names is left as it was
untouchedByOthers ==
    \A c \in Creds, g \in Groups :
        (g \in DOMAIN blockedGroups[c] /\ ~(last'.cred = c /\ last'.group = g))
        => (g \in DOMAIN blockedGroups'[c] /\ blockedGroups'[c][g] = blockedGroups[c][g])

\* C8: lazy expiry. An entry stays in the index until a call on its own group;
\* the first IsBlocked(g, now) with nextRetryAfter <= now deletes the entry and
\* returns (false, zero); every later IsBlocked(g, now') returns (false, zero)
\* until the next SetBlocked on g.
C8_LazyExpiry ==
    /\ [](( /\ last.op = "isGroupBlocked"
            /\ last.pre # NoState
            /\ last.pre.NextRetryAfter <= last.now )
          => ( /\ ~last.blocked
               /\ last.next = ZeroTime
               /\ last.group \notin DOMAIN blockedGroups[last.cred]
               /\ "expired" \in phase[last.cred][last.group] ))
    /\ [](\A c \in Creds, g \in Groups :
            "expired" \in phase[c][g] => g \notin DOMAIN blockedGroups[c])
    /\ []((last.op = "isGroupBlocked" /\ "expired" \in phase[last.cred][last.group])
          => (~last.blocked /\ last.next = ZeroTime))
    /\ [][untouchedByOthers]_vars

\* a state where a read has just removed an expired entry
C8_Witness ==
    /\ last.op = "isGroupBlocked"
    /\ last.pre # NoState
    /\ last.pre.NextRetryAfter <= last.now
    /\ last.pre.NextRetryAfter > ZeroTime
    /\ last.group \notin DOMAIN blockedGroups[last.cred]

\* C9: last writer wins. After SetBlocked(g, m2, r2, c2) on a non-empty g the
\* stored state is exactly (r2, c2, m2), whatever the previous state was.
C9_LastWriterWins ==
    (last.op = "setGroupBlocked" /\ last.group # "")
    => ( /\ last.group \in DOMAIN blockedGroups[last.cred]
         /\ lastEntry = [NextRetryAfter |-> last.retry,
                         NextRecoverAt |-> last.recover,
                         SourceModel |-> last.model]
         /\ DOMAIN lastEntry = {"NextRetryAfter", "NextRecoverAt", "SourceModel"} )

\* a state where a SetBlocked with earlier times and another model replaced a state
C9_Witness ==
    /\ last.op = "setGroupBlocked"
    /\ last.overwrote = "later"
    /\ lastEntry = quotaGroupState(last.retry, last.recover, last.model)

\* C10: Clear semantics. After SetBlocked(g, ...) then Clear(g), with no
\* SetBlocked on g in between, the entry is gone and IsBlocked(g, now) returns
\* (false, zero) for every now; Clear on a group with no entry changes nothing.
C10_ClearSemantics ==
    /\ [](last.op = "clearGroup" => last.group \notin DOMAIN blockedGroups[last.cred])
    /\ [](\A c \in Creds, g \in Groups :
            "cleared" \in phase[c][g] => g \notin DOMAIN blockedGroups[c])
    /\ []((last.op = "isGroupBlocked" /\ "cleared" \in phase[last.cred][last.group])
          => (~last.blocked /\ last.next = ZeroTime))
    /\ [][(last'.op = "clearGroup" /\ last'.pre = NoState)
          => blockedGroups' = blockedGroups]_vars

\* a state where IsBlocked has just answered for a group whose entry was
\* removed by Clear (not by expiry) after its last SetBlocked
C10_Witness ==
    /\ last.op = "isGroupBlocked"
    /\ "cleared" \in phase[last.cred][last.group]
    /\ "expired" \notin phase[last.cred][last.group]
    /\ ~last.blocked

(***************************************************************************)
(* Properties of the token cache, one call at a time                       *)
(***************************************************************************)
hashesOf(entries) == {entries[i].hash : i \in 1..Len(entries)}

lastHash == HashOf[cacheLast.content]
lastShard == shards[cacheLast.cache][shardOf(lastHash)]

noDuplicateHash(entries) ==
    \A i, j \in 1..Len(entries) : entries[i].hash = entries[j].hash => i = j

\* C4: FIFO eviction. A Set that inserts a new hash into a full shard removes
\* exactly the front entry (the first inserted of those present) and appends
\* the new one at the back; a Set into a shard with room appends; a Set that
\* refreshes a present hash, and any Get, keep the order of the entries.
C4_FifoEviction ==
    LET pre == cacheLast.pre
        post == lastShard
    IN  /\ (cacheLast.op = "Set" /\ lastHash \notin hashesOf(pre)
               /\ Len(pre) >= maxEntriesPerShard)
           => ( /\ Len(post) = Len(pre)
                /\ \A i \in 1..(Len(pre) - 1) : post[i] = pre[i + 1]
                /\ post[Len(post)] = [hash |-> lastHash, tokens |-> cacheLast.tokens]
                /\ pre[1].hash \notin hashesOf(post)
                /\ hashesOf(post) = (hashesOf(pre) \ {pre[1].hash}) \cup {lastHash} )
        /\ (cacheLast.op = "Set" /\ lastHash \notin hashesOf(pre)
               /\ Len(pre) < maxEntriesPerShard)
           => post = pre \o <<[hash |-> lastHash, tokens |-> cacheLast.tokens]>>
        /\ (cacheLast.op = "Set" /\ lastHash \in hashesOf(pre))
           => ( /\ Len(post) = Len(pre)
                /\ \A i \in 1..Len(pre) : post[i].hash = pre[i].hash )
        /\ cacheLast.op = "Get" => post = pre

\* a state where capacity+1 distinct hashes went into one shard: the Set of
\* the last one found the shard full and evicted
C4_Witness ==
    /\ cacheLast.op = "Set"
    /\ Len(cacheLast.pre) = maxEntriesPerShard
    /\ lastHash \notin hashesOf(cacheLast.pre)
    /\ cacheLast.pre[1].hash \notin hashesOf(lastShard)
    /\ \A i \in 2..Len(cacheLast.pre) : cacheLast.pre[i].hash \in hashesOf(lastShard)
    /\ lastHash \in hashesOf(lastShard)

\* C5: idempotent update. Every shard holds at most one entry per hash; Get on
\* a present hash returns the token count of the most recent Set of that hash;
\* a Set adds at most one entry, and none when the hash is present.
C5_IdempotentUpdate ==
    /\ \A tc \in Caches, i \in ShardIds : noDuplicateHash(shards[tc][i])
    /\ (cacheLast.op = "Get" /\ lastHash \in hashesOf(lastShard))
       => ( /\ cacheLast.found
            /\ cacheLast.ret = latest[cacheLast.cache][lastHash] )
    /\ (cacheLast.op = "Get" /\ cacheLast.found) => lastHash \in hashesOf(lastShard)
    /\ cacheLast.op = "Set"
       => ( /\ Len(lastShard) <= Len(cacheLast.pre) + 1
            /\ lastHash \in hashesOf(cacheLast.pre) => Len(lastShard) = Len(cacheLast.pre)
            /\ \E i \in 1..Len(lastShard) :
                  lastShard[i] = [hash |-> lastHash, tokens |-> cacheLast.tokens] )

\* a state where Set(c, t2) has just replaced the count t1 of a present hash
C5_Witness ==
    /\ cacheLast.op = "Set"
    /\ \E i \in 1..Len(cacheLast.pre) :
          /\ cacheLast.pre[i].hash = lastHash
          /\ cacheLast.pre[i].tokens # cacheLast.tokens
          /\ lastShard[i] = [hash |-> lastHash, tokens |-> cacheLast.tokens]
    /\ Len(lastShard) = Len(cacheLast.pre)

(***************************************************************************)
(* Properties of the token cache shared by several threads                 *)
(***************************************************************************)
RECURSIVE entriesUpTo(_, _)
entriesUpTo(tc, i) ==
    IF i < 0 THEN 0 ELSE Len(shards[tc][i]) + entriesUpTo(tc, i - 1)

\* C3: bounded shard size. In every reachable state, under any interleaving
\* of Set and Get calls, each shard holds at most maxEntriesPerShard entries
\* and the cache at most numShards * maxEntriesPerShard.
C3_BoundedShardSize ==
    \A tc \in Caches :
        /\ \A i \in ShardIds : Len(shards[tc][i]) <= maxEntriesPerShard
        /\ entriesUpTo(tc, numShards - 1) <= numShards * maxEntriesPerShard

\* a state where a Set has evicted from a full shard and appended: the shard
\* is at capacity again
C3_Witness ==
    \E t \in Threads :
        /\ tpc[t] = "set_unlock"
        /\ targ[t].evicted
        /\ Len(shards[SharedCache][threadShard(t)]) = maxEntriesPerShard

inRead(t, i) == tpc[t] \in {"get_scan", "get_runlock"} /\ threadShard(t) = i

inWrite(t, i) ==
    tpc[t] \in {"set_scan", "set_evict", "set_append", "set_unlock"} /\ threadShard(t) = i

\* C6: concurrent Get and Set are serialized per shard by the shard's lock.
\* Under every interleaving no shard holds two entries with one hash or more
\* than maxEntriesPerShard entries, a writer of a shard overlaps no reader and
\* no other writer of it, and a Get returns a miss or the count stored by a
\* completed Set of that hash.
C6_ShardLinearized ==
    /\ \A i \in ShardIds :
          /\ noDuplicateHash(shards[SharedCache][i])
          /\ Len(shards[SharedCache][i]) <= maxEntriesPerShard
          /\ \A t, u \in Threads :
                (t # u /\ inWrite(t, i)) => (~inWrite(u, i) /\ ~inRead(u, i))
    /\ \A t \in Threads :
          tpc[t] = "get_runlock"
          => IF tret[t].found
             THEN /\ latest[SharedCache][targ[t].hash] # 0
                  /\ tret[t].tokens = latest[SharedCache][targ[t].hash]
             ELSE tret[t].tokens = 0

\* a state where a Get holds the read lock of a shard and has found a count
\* while a Set of the same hash with another count waits for the lock
C6_Witness ==
    \E t, u \in Threads :
        /\ tpc[t] = "get_runlock"
        /\ tret[t].found
        /\ tpc[u] = "set_lock"
        /\ targ[u].hash = targ[t].hash
        /\ targ[u].tokens # tret[t].tokens

(***************************************************************************)
(* Properties of the index shared by several threads                       *)
(***************************************************************************)
\* C2: concurrent SetBlocked, IsBlocked and Clear on one index are serialized:
\* no thread is inside a write to blockedGroups while another thread is
\* inside an access to it, the runtime never ends the process over a
\* concurrent map access, and no IsBlocked deletes a state other than the
\* expired one it read (the only lost update is SetBlocked's last writer wins).
C2_IndexLinearized ==
    /\ \A t, u \in Threads : (writing(t) /\ accessing(u)) => t = u
    /\ ~crashed
    /\ ~staleDelete

(***************************************************************************)
(* Properties of extractModelFamily                                        *)
(***************************************************************************)
Delimiters == {45, 95, 46}

lowered(s) == [i \in 1..Len(s) |-> IF s[i] \in 65..90 THEN s[i] + 32 ELSE s[i]]

\* the bytes of s before its first delimiter (all of s when it has none)
beforeDelimiter(s) ==
    IF \E i \in 1..Len(s) : s[i] \in Delimiters
    THEN SubSeq(s, 1, (CHOOSE i \in 1..Len(s) :
                          /\ s[i] \in Delimiters
                          /\ \A j \in 1..(i - 1) : s[j] \notin Delimiters) - 1)
    ELSE s

\* C12 as stated: the family is the lower-cased identifier up to but excluding
\* its first delimiter among - _ . ; an identifier that starts with a delimiter
\* or contains none gives the whole lower-cased identifier; the empty
\* identifier gives the empty family.
C12_FamilyAsStated ==
    LET m == famLast.model
    IN  famLast.family =
            IF m = <<>> THEN <<>>
            ELSE IF m[1] \in Delimiters THEN lowered(m)
            ELSE lowered(beforeDelimiter(m))

\* C12, amended: the family is the lower-cased identifier up to but excluding
\* its first delimiter among - _ . ; an identifier that contains no delimiter
\* gives the whole lower-cased identifier; an identifier that starts with a
\* delimiter, and the empty identifier, give the empty family.
C12_FamilyResolver ==
    LET m == famLast.model
    IN  /\ famLast.family = lowered(beforeDelimiter(m))
        /\ (m # <<>> /\ m[1] \in Delimiters) => famLast.family = <<>>
        /\ (\A i \in 1..Len(m) : m[i] \notin Delimiters) => famLast.family = lowered(m)

\* a state where the family of an identifier that starts with a delimiter and
\* goes on with an upper-case letter has been computed
C12_Witness ==
    /\ Len(famLast.model) >= 2
    /\ famLast.model[1] \in Delimiters
    /\ famLast.model[2] \in 65..90
    /\ famLast.family = <<>>

(***************************************************************************)
(* Properties of the routing check and of the calls with missing keys     *)
(***************************************************************************)
FamilyResolver == "AntigravityQuotaGroupResolver"

\* the last call was a routing check: Resolve(provider, model), then IsBlocked
\* of the resolved group
routed ==
    /\ last.op = "isGroupBlocked"
    /\ regLast.op = "Resolve"
    /\ regLast.model = utf8[last.model]
    /\ regLast.group = utf8[last.group]

\* C11: block propagation. For a provider whose resolver maps the models a and
\* b to the same non-empty group G, after SetBlocked(G, a, r, zero) the routing
\* check IsBlocked(Resolve(provider, x), now) gives (true, r) for x = a and for
\* x = b while now < r, and (false, zero) once now > r.
C11_BlockPropagation ==
    /\ ( /\ routed
          /\ regLast.provider # <<>>
          /\ lowered(regLast.provider) \in DOMAIN quotaGroupResolvers
          /\ quotaGroupResolvers[lowered(regLast.provider)] = FamilyResolver
          /\ last.model \in {"claude-a", "claude-b"} )
       => last.group = "claude"
    /\ ( /\ routed
          /\ last.group # ""
          /\ last.pre # NoState
          /\ IsZero(last.pre.NextRecoverAt) )
       => ( /\ last.now < last.pre.NextRetryAfter
                => ( /\ last.blocked
                     /\ last.next = last.pre.NextRetryAfter
                     /\ lastEntry = last.pre )
            /\ last.now > last.pre.NextRetryAfter
                => (~last.blocked /\ last.next = ZeroTime) )

\* a state where the routing check of "claude-b" has found the group blocked
\* by "claude-a"
C11_Witness ==
    /\ routed
    /\ last.model = "claude-b"
    /\ last.pre # NoState
    /\ last.pre.SourceModel = "claude-a"
    /\ IsZero(last.pre.NextRecoverAt)
    /\ last.blocked
    /\ last.next = last.pre.NextRetryAfter

blank(p) == \A i \in 1..Len(p) : p[i] \in {9, 10, 11, 12, 13, 32}

\* C16: missing or empty keys never fail and never change state. SetBlocked
\* with group "" leaves the index unchanged; IsBlocked with group "" or an
\* absent group returns (false, zero) and leaves the index unchanged; Resolve
\* with an empty provider or an empty model returns ""; Register with a
\* provider that is empty after trimming, or with a nil resolver, leaves both
\* registry maps unchanged; every index method on a nil index returns its
\* default without effect.
C16_EmptyKeys ==
    /\ [][(last'.op = "setGroupBlocked" /\ last'.group = "")
          => blockedGroups' = blockedGroups]_vars
    /\ [][( /\ last'.op = "isGroupBlocked"
            /\ \/ last'.group = ""
               \/ last'.group \notin DOMAIN blockedGroups[last'.cred] )
          => ( /\ ~last'.blocked
               /\ last'.next = ZeroTime
               /\ blockedGroups' = blockedGroups )]_vars
    /\ []((regLast.op = "Resolve" /\ (regLast.provider = <<>> \/ regLast.model = <<>>))
          => regLast.group = <<>>)
    /\ [][( /\ regLast'.op = "Register"
            /\ blank(regLast'.provider) \/ regLast'.resolver = NilResolver )
          => ( /\ quotaGroupResolvers' = quotaGroupResolvers
               /\ quotaGroupProviders' = quotaGroupProviders )]_vars
    /\ [][(last'.op # "none" /\ Runtime[last'.cred] <= 0)
          => ( /\ blockedGroups' = blockedGroups
               /\ Runtime' = Runtime
               /\ ~last'.blocked
               /\ last'.next = ZeroTime )]_vars

\* a state where SetBlocked has been called on the nil index of a credential
\* and a Register of the provider " " has returned
C16_Witness ==
    /\ last.op = "setGroupBlocked"
    /\ last.group = "claude"
    /\ Runtime[last.cred] = NilRuntime
    /\ regLast.op = "Register"
    /\ regLast.provider = <<32>>
    /\ regLast.resolver # NilResolver

(***************************************************************************)
(* Properties of the resolver registry, one call at a time                 *)
(***************************************************************************)
\* C14: Register then look up. After Register(p, r) with r non-nil and p
\* non-empty once trimmed, and no later Register, HasGrouping(p) is true and
\* Resolve(p, m) returns r's result for every non-empty model m, for the
\* string p as it was passed to Register (whatever its letter case or
\* surrounding white space); the resolver stored for the normalized provider
\* is the one of the latest Register.
C14_RegisterThenLookup ==
    /\ (regLast.op = "HasGrouping" /\ regLast.provider = registered.provider)
       => regLast.ok
    /\ ( /\ regLast.op = "Resolve"
          /\ regLast.provider = registered.provider
          /\ regLast.model # <<>> )
       => regLast.group =
              invoke(registered.resolver, lowered(registered.provider), regLast.model)
    /\ LET key == lowered(TrimSpace(registered.provider))
       IN  /\ key \in DOMAIN quotaGroupResolvers
           /\ quotaGroupResolvers[key] = registered.resolver

(***************************************************************************)
(* Properties of the resolver registry shared by several threads           *)
(***************************************************************************)
\* C13: no grouping by default, and the fast-membership set agrees with the
\* resolver table. Whenever a reader can look (no Register holds the lock) the
\* set is the domain of the table; the ok a HasGrouping has read is true
\* exactly when a resolver is stored under the lower-cased provider; for the
\* provider "kiro", never registered, HasGrouping is false and Resolve is ""
\* whatever is registered for other providers.
C13_MembershipAgrees ==
    /\ quotaGroupMu.writer = "none" => quotaGroupProviders = DOMAIN quotaGroupResolvers
    /\ \A t \in Threads :
          /\ at(t, "HasGrouping", "runlock")
              => (top(t).ok <=> top(t).provider \in DOMAIN quotaGroupResolvers)
          /\ (at(t, "HasGrouping", "return") /\ top(t).provider = Kiro) => ~top(t).ok
          /\ (at(t, "Resolve", "return") /\ top(t).provider = Kiro) => top(t).ret = <<>>
          /\ at(t, "Resolve", "invoke") => top(t).provider \in quotaGroupProviders

\* a state where a HasGrouping of "qwen" waits for the lock while a Register
\* of "qwen" has stored the resolver and not yet the membership
C13_Witness ==
    \E t, u \in Threads :
        /\ at(t, "HasGrouping", "rlock")
        /\ top(t).provider = Qwen
        /\ at(u, "Register", "store_provider")
        /\ Qwen \in DOMAIN quotaGroupResolvers
        /\ Qwen \notin quotaGroupProviders

(***************************************************************************)
(* Lock discipline of the registry and the token cache                     *)
(***************************************************************************)
holdsRegistry(t) == quotaGroupMu.writer = t \/ t \in quotaGroupMu.readers

shardsHeld(t) == {i \in ShardIds : rw[i].writer = t \/ t \in rw[i].readers}

locksHeld(t) == (IF holdsRegistry(t) THEN 1 ELSE 0) + Cardinality(shardsHeld(t))

\* the thread waits for a lock it cannot take now
waiting(t) ==
    \/ at(t, "Register", "lock") /\ ~canLock(quotaGroupMu)
    \/ (at(t, "HasGrouping", "rlock") \/ at(t, "Resolve", "rlock"))
          /\ ~canRLock(quotaGroupMu)
    \/ tpc[t] = "get_rlock" /\ ~canRLock(rw[threadShard(t)])
    \/ tpc[t] = "set_lock" /\ ~canLock(rw[threadShard(t)])

\* C18: lock discipline and deadlock freedom. Each thread holds at most one
\* lock among the registry lock and the shard locks; Resolve holds no registry
\* lock while the resolver it invoked runs; no state is a deadlock (of the
\* threads inside a call, one can step); and under fair scheduling every
\* started Get, Set, Register, HasGrouping and Resolve completes, also when
\* the resolver calls Register or Resolve.
C18_LockDiscipline ==
    /\ [](\A t \in Threads : locksHeld(t) <= 1)
    /\ [](\A t \in Threads :
            ( \/ at(t, "Resolve", "invoke")
              \/ Len(rstack[t]) > 1 /\ top(t).pc \in {"lock", "rlock"} )
            => ~holdsRegistry(t))
    /\ []((\E t \in Threads : ~idle(t)) => (\E t \in Threads : ~idle(t) /\ ~waiting(t)))
    /\ \A t \in Threads : (~idle(t)) ~> idle(t)

\* a state where a resolver invoked by Resolve is inside Register and holds
\* the write lock while the other thread waits to read
C18_Witness ==
    \E t, u \in Threads :
        /\ Len(rstack[t]) = 3
        /\ rstack[t][1].op = "Resolve"
        /\ rstack[t][1].pc = "called"
        /\ top(t).op = "Register"
        /\ quotaGroupMu.writer = t
        /\ at(u, "Resolve", "rlock")

\* the thread has returned from getOrCreateQuotaGroupIndex(c) with an index
returned(t, c) == gpc[t] = "idle" /\ gidx[t].auth = c /\ gidx[t].idx # NilIndex

\* C15: index creation is lazy and idempotent. For a credential whose slot
\* was empty or held an index, all callers of getOrCreateQuotaGroupIndex,
\* racing first callers included, are returned the same index, and that
\* index is the one in the credential's slot; a nil credential yields nil.
C15_SingleIndex ==
    /\ \A c \in Creds :
          Runtime0[c] # OtherRuntime =>
              \A t, u \in Threads :
                  returned(t, c) /\ returned(u, c) =>
                      /\ gidx[t].idx = gidx[u].idx
                      /\ gidx[t].idx = Runtime[c]
    /\ \A t \in Threads :
          gpc[t] = "idle" /\ gidx[t].auth = NilAuth => gidx[t].idx = NilIndex

\* the content of the last Set of the hash, in the cache of the call
setterOf(tc, content) == setter[tc][HashOf[content]]

\* the call is made with a content other than the one that was last Set
\* under the same hash
collides(tc, content) == setterOf(tc, content) \notin {NoContent, content}

\* C17: a hash collision is treated as the same content. A Get of a content
\* whose hash is present returns the count of the last Set of that hash, also
\* when that Set was made with another content; a Set of a content whose hash
\* is present under another content rewrites that entry in place: the shard
\* keeps its length and the order of its hashes, no other entry changes, and
\* the entry holds the new count.
C17_CollisionIsSameContent ==
    /\ []( (cacheLast.op = "Get" /\ collides(cacheLast.cache, cacheLast.content)
               /\ lastHash \in hashesOf(lastShard))
           => ( /\ cacheLast.found
                /\ cacheLast.ret = latest[cacheLast.cache][lastHash] ) )
    /\ [][ (cacheLast'.op = "Set" /\ collides(cacheLast'.cache, cacheLast'.content)
               /\ HashOf[cacheLast'.content] \in hashesOf(cacheLast'.pre))
           => LET pre == cacheLast'.pre
                  hash == HashOf[cacheLast'.content]
                  post == shards'[cacheLast'.cache][shardOf(hash)]
              IN  /\ Len(post) = Len(pre)
                  /\ \A i \in 1..Len(pre) :
                        post[i] = IF pre[i].hash = hash
                                  THEN [hash |-> hash, tokens |-> cacheLast'.tokens]
                                  ELSE pre[i]
                  /\ latest'[cacheLast'.cache][hash] = cacheLast'.tokens ]_vars

\* a state where Get(c2) has just returned the count that Set(c1, t1) stored,
\* c1 and c2 being different contents with one hash, in a shard that holds
\* another entry in front of theirs
C17_Witness ==
    /\ cacheLast.op = "Get"
    /\ collides(cacheLast.cache, cacheLast.content)
    /\ HashOf[setterOf(cacheLast.cache, cacheLast.content)] = lastHash
    /\ cacheLast.found
    /\ cacheLast.ret = latest[cacheLast.cache][lastHash]
    /\ Len(lastShard) = 2
    /\ lastShard[2].hash = lastHash

\* the entry of group g in the index of credential c, NoState when it has none
entryOf(c, g) == MapLookup(blockedGroups[c], g)

\* C19: group and credential independence. A SetBlocked, Clear or IsBlocked
\* on group g of credential C leaves the entry of every other group of C and
\* of every group of every other credential as it was: present with the same
\* state, or absent. The deletion IsBlocked(g, now) makes never removes
\* another group's entry, expired or not.
C19_Independence ==
    [][ \A c \in Creds, g \in Groups :
            ~(last'.cred = c /\ last'.group = g)
            => /\ (g \in DOMAIN blockedGroups'[c]) = (g \in DOMAIN blockedGroups[c])
               /\ entryOf(c, g)' = entryOf(c, g) ]_vars

\* a state where IsBlocked has just deleted the expired entry of its group
\* while another group of the same credential and a group of the other
\* credential hold entries that have expired as well
C19_Witness ==
    /\ last.op = "isGroupBlocked"
    /\ last.pre # NoState
    /\ ~stillBlocked(last.pre, last.now)
    /\ last.group \notin DOMAIN blockedGroups[last.cred]
    /\ \E g \in DOMAIN blockedGroups[last.cred] :
          ~stillBlocked(blockedGroups[last.cred][g], last.now)
    /\ \E c \in Creds \ {last.cred} :
          \E g \in DOMAIN blockedGroups[c] :
              ~stillBlocked(blockedGroups[c][g], last.now)

\* the index of the shard the content belongs to
homeShard(content) == HashOf[content] % numShards

\* C20: shard determinism and isolation. In every cache an entry is stored
\* in the shard whose index is its hash modulo numShards, so a content is
\* looked up and stored at the same index on every call and in every cache;
\* Set(c, t) changes no shard but that one shard of the cache it is called
\* on; Get changes no shard of any cache.
C20_ShardIsolation ==
    /\ [](\A tc \in Caches, i \in ShardIds :
            \A k \in 1..Len(shards[tc][i]) : shards[tc][i][k].hash % numShards = i)
    /\ [][ /\ cacheLast'.op = "Set"
              => /\ \A tc \in Caches, i \in ShardIds :
                       ~(tc = cacheLast'.cache /\ i = homeShard(cacheLast'.content))
                       => shards'[tc][i] = shards[tc][i]
                 /\ HashOf[cacheLast'.content] \in
                       hashesOf(shards'[cacheLast'.cache][homeShard(cacheLast'.content)])
           /\ cacheLast'.op = "Get" => shards' = shards ]_vars

\* a state where Set has just stored a content in one cache while the other
\* cache holds the same content, at the same shard index, with another
\* count, and the other shard of the cache of the call is not empty
C20_Witness ==
    /\ cacheLast.op = "Set"
    /\ \E i \in 1..Len(lastShard) :
          lastShard[i] = [hash |-> lastHash, tokens |-> cacheLast.tokens]
    /\ \E tc \in Caches \ {cacheLast.cache} :
          \E i \in 1..Len(shards[tc][homeShard(cacheLast.content)]) :
              /\ shards[tc][homeShard(cacheLast.content)][i].hash = lastHash
              /\ shards[tc][homeShard(cacheLast.content)][i].tokens # cacheLast.tokens
    /\ \E j \in ShardIds \ {homeShard(cacheLast.content)} :
          shards[cacheLast.cache][j] # <<>>

====
